---------------------------- MODULE Spec2Model ----------------------------
(***************************************************************************)
(* udp2dns (src/src/main.rs): a UDP-over-DNS tunnel.  One dispatcher task  *)
(* (main) owns the listening socket and two tables; every new source       *)
(* address gets an upstream socket and a relay task (client or server).    *)
(* Dispatcher and relay tasks talk through the loopback interface: the    *)
(* dispatcher sends to the upstream socket's port, the relay task sends    *)
(* back to the listening socket, and the dispatcher recognises it by its   *)
(* loopback source port.                                                   *)
(*                                                                         *)
(* Bytes are numbers 0..255, text is a sequence of ASCII codes.            *)
(***************************************************************************)
EXTENDS Integers, Sequences, FiniteSets, TLC

VARIABLES
    client,       \* config.client: the role of this process
    main_result,  \* "running", or the error main() returned with
    inbox,        \* receive queue of the listening socket
    table_send,   \* source address -> port of the upstream socket
    table_recv,   \* upstream port -> source address
    flows,        \* spawned relay tasks, in spawn order, with their sockets
    peer_open,    \* loopback peers whose socket is still bound
    arrivals,     \* datagrams the environment has sent so far
    lseq,         \* datagrams queued on the listening socket so far
    quiet,        \* time units since anything was sent, received or handled
    last_main,    \* what the last dispatcher iteration did
    last_flow,    \* what the last relay-task iteration did
    payload,      \* codec: the payload being converted
    stage,        \* codec: which conversion ran last
    qmsg,         \* codec: the query message encoded from payload
    amsg,         \* codec: the answer message encoded from payload
    decoded       \* codec: result of the last decode

netvars == <<client, main_result, inbox, table_send, table_recv, flows,
             peer_open, arrivals, lseq, quiet, last_main, last_flow>>
codecvars == <<payload, stage, qmsg, amsg, decoded>>
vars == <<client, main_result, inbox, table_send, table_recv, flows,
          peer_open, arrivals, lseq, quiet, last_main, last_flow,
          payload, stage, qmsg, amsg, decoded>>

----------------------------------------------------------------------------
(* Program constants *)

BUF_SIZE == 4096
NAME_L == 63
TXT_L == 255

(* Bounds of the model *)

MaxPayloadLen == 100  \* codec: payload lengths 0..MaxPayloadLen
MaxPort == 2          \* ephemeral ports 1..MaxPort
MaxArrivals == 3      \* datagrams the environment sends in one run
InboxCap == 2         \* datagrams the listening socket's receive buffer holds
QueueCap == 1         \* datagrams an upstream socket's receive buffer holds
IdleTimeout == 1      \* the idle timeout the specification configures

----------------------------------------------------------------------------
(* Small helpers *)

Min(a, b) == IF a < b THEN a ELSE b

RECURSIVE Concat(_)
Concat(ss) == IF ss = <<>> THEN <<>> ELSE Head(ss) \o Concat(Tail(ss))

Ok(b) == [outcome |-> "ok", b |-> b]
Err == [outcome |-> "err", b |-> <<>>]
Panic == [outcome |-> "panic", b |-> <<>>]

----------------------------------------------------------------------------
(* base64 (crate base64, encode_config / decode_config) *)

PAD == 61           \* '='
DOT == 46           \* '.'

STANDARD == [url |-> FALSE, pad |-> TRUE]
URL_SAFE_NO_PAD == [url |-> TRUE, pad |-> FALSE]

\* The alphabet: sextet value -> ASCII code.
Symbol(cfg, v) ==
    IF v < 26 THEN 65 + v
    ELSE IF v < 52 THEN 97 + (v - 26)
    ELSE IF v < 62 THEN 48 + (v - 52)
    ELSE IF v = 62 THEN (IF cfg.url THEN 45 ELSE 43)
    ELSE (IF cfg.url THEN 95 ELSE 47)

\* The decode table: ASCII code -> sextet value, -1 for a byte outside the
\* alphabet.
Morsel(cfg, c) ==
    IF c >= 65 /\ c <= 90 THEN c - 65
    ELSE IF c >= 97 /\ c <= 122 THEN c - 71
    ELSE IF c >= 48 /\ c <= 57 THEN c + 4
    ELSE IF c = (IF cfg.url THEN 45 ELSE 43) THEN 62
    ELSE IF c = (IF cfg.url THEN 95 ELSE 47) THEN 63
    ELSE -1

\* The k-th (0-based) sextet of the bit string of bytes, zero-filled.
Sextet(bytes, k) ==
    LET g == k \div 4
        B(i) == IF 3 * g + i + 1 <= Len(bytes) THEN bytes[3 * g + i + 1] ELSE 0
    IN  CASE k % 4 = 0 -> B(0) \div 4
          [] k % 4 = 1 -> (B(0) % 4) * 16 + B(1) \div 16
          [] k % 4 = 2 -> (B(1) % 16) * 4 + B(2) \div 64
          [] OTHER     -> B(2) % 64

encode_config(bytes, cfg) ==
    LET L == (4 * Len(bytes) + 2) \div 3
        text == [k \in 1..L |-> Symbol(cfg, Sextet(bytes, k - 1))]
        npad == IF cfg.pad THEN (4 - (L % 4)) % 4 ELSE 0
    IN  text \o [k \in 1..npad |-> PAD]

\* Number of symbols before the trailing run of '='.
DataLen(s) ==
    IF \A i \in 1..Len(s) : s[i] = PAD THEN 0
    ELSE CHOOSE m \in 1..Len(s) :
            s[m] # PAD /\ \A i \in (m + 1)..Len(s) : s[i] = PAD

\* decode_config: the configuration chooses the alphabet; padding is
\* accepted when present (only at the end, only in the last two places of a
\* quad), and the bits of the last symbol that are discarded must be zero.
decode_config(s, cfg) ==
    LET n == Len(s)
        m == DataLen(s)
        V(i) == Morsel(cfg, s[i])
        nbytes == 3 * (m \div 4) + (IF m % 4 = 2 THEN 1 ELSE IF m % 4 = 3 THEN 2 ELSE 0)
        Byte(i) ==
            LET g == i \div 3
            IN  CASE i % 3 = 0 -> V(4 * g + 1) * 4 + V(4 * g + 2) \div 16
                  [] i % 3 = 1 -> (V(4 * g + 2) % 16) * 16 + V(4 * g + 3) \div 4
                  [] OTHER     -> (V(4 * g + 3) % 4) * 64 + V(4 * g + 4)
    IN  IF n % 4 = 1 THEN Err
        ELSE IF \E i \in 1..m : V(i) < 0 THEN Err
        ELSE IF \E i \in (m + 1)..n : (i - 1) % 4 < 2 THEN Err
        ELSE IF m % 4 = 2 /\ V(m) % 16 # 0 THEN Err
        ELSE IF m % 4 = 3 /\ V(m) % 4 # 0 THEN Err
        ELSE Ok([i \in 1..nbytes |-> Byte(i - 1)])

----------------------------------------------------------------------------
(* DNS messages (crate trust_dns_proto).  A message is its list of queries  *)
(* (each a name: a sequence of labels) and its list of answer records.  The *)
(* random id is left out: no decoder reads it.                              *)

\* Mutant: the chunks are cut one symbol too long.
ChunksOversize(s, size) ==
    [i \in 1..((Len(s) + size) \div (size + 1)) |->
        SubSeq(s, (i - 1) * (size + 1) + 1, Min(i * (size + 1), Len(s)))]

\* (0..s.len()).step_by(size).map(|i| &s[i..min(i + size, s.len())])
Chunks(s, size) ==
    [i \in 1..((Len(s) + size - 1) \div size) |->
        SubSeq(s, (i - 1) * size + 1, Min(i * size, Len(s)))]

Message(queries, answers) == [k |-> "msg", queries |-> queries, answers |-> answers]
Raw(bytes) == [k |-> "raw", b |-> bytes]

TxtRecord(strings) == [type |-> "TXT", txt |-> strings]
OtherRecord == [type |-> "A", txt |-> <<>>]

\* Name's Display: every label followed by a dot; the root name is ".".
NameToString(name) ==
    IF name = <<>> THEN <<DOT>>
    ELSE Concat([i \in 1..Len(name) |-> name[i] \o <<DOT>>])

\* str::trim_end_matches('.')
RECURSIVE TrimEndDots(_)
TrimEndDots(s) ==
    IF s # <<>> /\ s[Len(s)] = DOT THEN TrimEndDots(SubSeq(s, 1, Len(s) - 1)) ELSE s

\* Message::from_vec.  A raw datagram of the model is shorter than a DNS
\* header (12 bytes) and so never parses.
FromVec(dgram) == IF dgram.k = "msg" THEN Ok(dgram) ELSE Err

\* Mutant: the chunks are the labels of the one name of a single query.
encode_as_query_one_name(bytes) ==
    LET s == encode_config(bytes, URL_SAFE_NO_PAD)
        labels == Chunks(s, NAME_L)
    IN  Message(IF labels = <<>> THEN <<>> ELSE <<labels>>, <<>>)

\* client, lines 86-96: the query message for a payload.
encode_as_query(bytes) ==
    LET s == encode_config(bytes, URL_SAFE_NO_PAD)
        labels == Chunks(s, NAME_L)
    IN  Message([i \in 1..Len(labels) |-> <<labels[i]>>], <<>>)

\* server, lines 135-143: the payload of a datagram taken as a query message.
decode_query(dgram) ==
    LET parsed == FromVec(dgram)
    IN  IF parsed.outcome # "ok" THEN Err
        ELSE LET qs == parsed.b.queries
                 s == Concat([i \in 1..Len(qs) |-> TrimEndDots(NameToString(qs[i]))])
             IN  decode_config(s, URL_SAFE_NO_PAD)

\* Mutant: the answer encoder uses the standard alphabet with padding.
AnswerEncodeStandard == STANDARD

\* The base64 configuration of the answer encoder (line 161).
AnswerEncodeConfig == URL_SAFE_NO_PAD

\* Mutant: the records carry the payload bytes themselves.
encode_as_answer_plain(bytes) ==
    LET chunks == Chunks(bytes, TXT_L)
    IN  Message(<<>>, [i \in 1..Len(chunks) |-> TxtRecord(<<chunks[i]>>)])

\* server, lines 161-172: the answer message for a payload.
encode_as_answer(bytes) ==
    LET s == encode_config(bytes, AnswerEncodeConfig)
        chunks == Chunks(s, TXT_L)
    IN  Message(<<>>, [i \in 1..Len(chunks) |-> TxtRecord(<<chunks[i]>>)])

\* client, lines 104-111: the payload of a datagram taken as an answer
\* message.  rec.data().unwrap().as_txt().unwrap() panics on a record that
\* carries no TXT data.
decode_answer(dgram) ==
    LET parsed == FromVec(dgram)
    IN  IF parsed.outcome # "ok" THEN Err
        ELSE LET as == parsed.b.answers
             IN  IF \E i \in 1..Len(as) : as[i].type # "TXT" THEN Panic
                 ELSE decode_config(Concat([i \in 1..Len(as) |-> Concat(as[i].txt)]),
                                    URL_SAFE_NO_PAD)

RECURSIVE Sum(_)
Sum(ns) == IF ns = <<>> THEN 0 ELSE Head(ns) + Sum(Tail(ns))

\* Message::to_vec (lines 100 and 174): the length of the message on the
\* wire.  A header of 12 bytes; a query is its name, 2 bytes of type and 2 of
\* class; a name is its labels, each behind a length byte, and the root
\* byte, or a pointer of 2 bytes when the same name stands earlier in the
\* message; a record is its name (Record::new() has the root name, 1 byte),
\* type, class, ttl (4 bytes), the length of its data (2 bytes) and its
\* strings, each behind a length byte.
WireLen(m) ==
    LET NameLen(i) ==
            IF \E j \in 1..(i - 1) : m.queries[j] = m.queries[i] THEN 2
            ELSE Sum([l \in 1..Len(m.queries[i]) |-> 1 + Len(m.queries[i][l])]) + 1
        RecordLen(i) ==
            1 + 2 + 2 + 4 + 2
            + Sum([t \in 1..Len(m.answers[i].txt) |-> 1 + Len(m.answers[i].txt[t])])
    IN  12 + Sum([i \in 1..Len(m.queries) |-> NameLen(i) + 2 + 2])
           + Sum([i \in 1..Len(m.answers) |-> RecordLen(i)])

----------------------------------------------------------------------------
(* Addresses, datagrams, sockets *)

HostPort == 0       \* port of the listening socket (config.listen)
DstPort == 9        \* port of the tunnel destination (config.dst)

\* A socket address: whether its IP is a loopback address (127.0.0.0/8),
\* which address of that kind it is, and its port.
AddrOf(lo, ip, port) == [lo |-> lo, ip |-> ip, port |-> port]
Addr(lo, port) == AddrOf(lo, 1, port)

\* usock.local_addr() of the listening socket, as a relay task sees the
\* dispatcher's datagrams: a loopback source with the listening port.
Host == Addr(TRUE, HostPort)
Dst == Addr(FALSE, DstPort)

Ports == 1..MaxPort
LocalPeer == Addr(TRUE, 1)      \* an application on this machine
RemotePeer == Addr(FALSE, 1)    \* an application on another machine
PeerAddrs == {LocalPeer, RemotePeer}

\* Other senders: a host that is neither a peer nor the tunnel destination,
\* and a local process bound to the listening port on a second loopback
\* address (127.0.0.2 while the dispatcher listens on 127.0.0.1).
Stranger == Addr(FALSE, 7)
LoopbackAlias == AddrOf(TRUE, 2, HostPort)

Ping == <<112, 105, 110, 103>>
Odd == <<251, 255>>
BadQuery == Message(<<<<(<<65>>)>>>>, <<>>)
BadAnswer == Message(<<>>, <<TxtRecord(<<(<<65>>)>>)>>)
NonTxtAnswer == Message(<<>>, <<OtherRecord>>)

\* What arrives from outside: datagrams for the listening socket and
\* datagrams the tunnel destination sends to an upstream socket.
ListenInputs ==
    IF client THEN {Raw(Odd)}
    ELSE {Raw(Odd), encode_as_query(Ping), BadQuery}
UpstreamInputs ==
    IF client THEN {Raw(Odd), encode_as_answer(Ping), BadAnswer, NonTxtAnswer}
    ELSE {Raw(Odd)}

\* Senders that are no party of the tunnel, and where their datagrams go:
\* the tunnel destination may send to the listening socket, the other two
\* to an upstream socket.
ListenIntruders == {Dst}
UpstreamIntruders == {Stranger, LoopbackAlias}

\* id: position among the datagrams queued on the listening socket (0: it
\* never passed there); origin: the relay task that sent it (0: none).
Dgram(from, data, id, origin) ==
    [from |-> from, data |-> data, id |-> id, origin |-> origin]

\* &buf[..received] of a datagram of plain bytes
Bytes(data) == data.b

\* Mutant: the newest datagram is handed out first.
EnqueueFront(q, dg) == <<dg>> \o q

\* A socket's receive buffer is first in, first out.
Enqueue(q, dg) == Append(q, dg)

\* Mutant: a full buffer still takes the datagram.
ReceiveAlways(q, cap, dg) == Enqueue(q, dg)

\* A datagram sent to a socket whose buffer is full is dropped by the
\* kernel; the sender is not told and does not wait.
Receive(q, cap, dg) == IF Len(q) < cap THEN Enqueue(q, dg) ELSE q

\* send_to(.., 0.0.0.0:port): the datagram reaches the socket bound to the
\* port, if a live task holds one.
SendToPort(fl, port, dg) ==
    [i \in DOMAIN fl |->
        IF fl[i].port = port /\ fl[i].status = "running"
        THEN [fl[i] EXCEPT !.rx = Receive(@, QueueCap, dg)]
        ELSE fl[i]]

Running(i) == flows[i].status = "running"

\* Ports the operating system can hand to bind("0.0.0.0:0").
FreePorts ==
    Ports \ ({flows[i].port : i \in {j \in DOMAIN flows : Running(j)}}
             \cup {p.port : p \in peer_open})

\* io: the result of the call the event ended with.
NoEvent == [branch |-> "none", io |-> "ok"]

----------------------------------------------------------------------------
(* Initial states *)

NetInit ==
    /\ main_result = "running"
    /\ inbox = <<>>
    /\ table_send = <<>>
    /\ table_recv = <<>>
    /\ flows = <<>>
    /\ peer_open = {LocalPeer}
    /\ arrivals = 0
    /\ lseq = 0
    /\ quiet = 0
    /\ last_main = NoEvent
    /\ last_flow = NoEvent

CodecIdle ==
    /\ payload = <<>>
    /\ stage = "idle"
    /\ qmsg = Message(<<>>, <<>>)
    /\ amsg = Message(<<>>, <<>>)
    /\ decoded = Err

Init == client \in BOOLEAN /\ NetInit /\ CodecIdle

\* Codec: payloads of every length up to MaxPayloadLen, of the length
\* of Scenario D and of the full receive buffer, in two byte patterns (all
\* 255, and a ramp), and the text "ping".
Pattern(n, step) == [i \in 1..n |-> (255 + step * i) % 256]
PayloadLens == (0..MaxPayloadLen) \cup {600, BUF_SIZE}
Payloads == {Pattern(n, step) : n \in PayloadLens, step \in {0, 37}} \cup {Ping}

CodecInit ==
    /\ client = FALSE
    /\ NetInit
    /\ payload \in Payloads
    /\ stage = "picked"
    /\ qmsg = Message(<<>>, <<>>)
    /\ amsg = Message(<<>>, <<>>)
    /\ decoded = Err

----------------------------------------------------------------------------
(* The environment *)

\* A datagram from a peer (or from the tunnel destination) reaches the
\* listening socket.
ArriveListen(src, data) ==
    /\ main_result = "running"
    /\ arrivals < MaxArrivals
    /\ src.lo => src \in peer_open
    /\ Len(inbox) < InboxCap
    /\ arrivals' = arrivals + 1
    /\ lseq' = lseq + 1
    /\ inbox' = Enqueue(inbox, Dgram(src, data, lseq + 1, 0))
    /\ quiet' = 0
    /\ UNCHANGED <<client, main_result, table_send, table_recv, flows,
                   peer_open, last_main, last_flow>>
    /\ UNCHANGED codecvars

\* A datagram from outside reaches the upstream socket of relay task i.
ArriveUpstream(i, src, data) ==
    /\ main_result = "running"
    /\ arrivals < MaxArrivals
    /\ Running(i)
    /\ Len(flows[i].rx) < QueueCap
    /\ arrivals' = arrivals + 1
    /\ flows' = [flows EXCEPT ![i].rx = Enqueue(@, Dgram(src, data, 0, 0))]
    /\ quiet' = 0
    /\ UNCHANGED <<client, main_result, inbox, table_send, table_recv,
                   peer_open, lseq, last_main, last_flow>>
    /\ UNCHANGED codecvars

\* A local application closes its socket; its port is free again.
PeerClose(p) ==
    /\ main_result = "running"
    /\ p \in peer_open
    /\ peer_open' = peer_open \ {p}
    /\ UNCHANGED <<client, main_result, inbox, table_send, table_recv, flows,
                   arrivals, lseq, quiet, last_main, last_flow>>
    /\ UNCHANGED codecvars

\* Time passes while every task waits in recv_from.
Tick ==
    /\ main_result = "running"
    /\ inbox = <<>>
    /\ \A i \in DOMAIN flows : Running(i) => flows[i].rx = <<>>
    /\ quiet <= IdleTimeout
    /\ quiet' = quiet + 1
    /\ UNCHANGED <<client, main_result, inbox, table_send, table_recv, flows,
                   peer_open, arrivals, lseq, last_main, last_flow>>
    /\ UNCHANGED codecvars

----------------------------------------------------------------------------
(* The dispatcher: one iteration of the loop of main, lines 49-76 *)

\* Mutant: the lookup never hits.
KnownNever(from) == FALSE

\* table_send.get(&from), line 52
Known(from) == from \in DOMAIN table_send

\* from.ip().is_loopback() && table_recv.contains_key(&from.port()), line 56
IsReply(from) == from.lo /\ from.port \in DOMAIN table_recv

MainEvent(branch, dg, to) ==
    [branch |-> branch, from |-> dg.from, origin |-> dg.origin, id |-> dg.id,
     to |-> to, io |-> "ok"]

\* Mutant: the failed call is logged, its datagram skipped, and the loop
\* goes on.
ExitSkip(result, event) ==
    /\ last_main' = [event EXCEPT !.io = result]
    /\ inbox' = IF inbox = <<>> THEN inbox ELSE Tail(inbox)
    /\ UNCHANGED <<client, main_result, table_send, table_recv, flows,
                   peer_open, arrivals, lseq, quiet, last_flow>>
    /\ UNCHANGED codecvars

\* `?` on a failed call returns the error from main: the runtime shuts
\* down, every task is dropped with its socket, the process is gone.
Exit(result, event) ==
    /\ main_result' = result
    /\ last_main' = [event EXCEPT !.io = result]
    /\ inbox' = <<>>
    /\ table_send' = <<>>
    /\ table_recv' = <<>>
    /\ flows' = <<>>
    /\ peer_open' = {}
    /\ arrivals' = 0
    /\ lseq' = 0
    /\ quiet' = 0
    /\ last_flow' = NoEvent
    /\ UNCHANGED client
    /\ UNCHANGED codecvars

\* Line 50: recv_from on the listening socket fails.
MainRecvError ==
    /\ main_result = "running"
    /\ Exit("err_recv", NoEvent)

\* Lines 52-55: a datagram of a known source goes to its upstream socket.
MainKnown(ok) ==
    /\ main_result = "running"
    /\ inbox # <<>>
    /\ Known(Head(inbox).from)
    /\ LET dg == Head(inbox)
           to == table_send[dg.from]
       IN  IF ok
           THEN /\ inbox' = Tail(inbox)
                /\ flows' = SendToPort(flows, to, Dgram(Host, dg.data, dg.id, dg.origin))
                /\ last_main' = MainEvent("known", dg, to)
                /\ quiet' = 0
                /\ UNCHANGED <<client, main_result, table_send, table_recv,
                               peer_open, arrivals, lseq, last_flow>>
                /\ UNCHANGED codecvars
           ELSE Exit("err_send", MainEvent("known", dg, to))

\* Lines 56-59: a datagram from a loopback port of table_recv goes out to
\* the address the table holds for the port.
MainReply(ok) ==
    /\ main_result = "running"
    /\ inbox # <<>>
    /\ ~Known(Head(inbox).from)
    /\ IsReply(Head(inbox).from)
    /\ LET dg == Head(inbox)
           to == table_recv[dg.from.port]
       IN  IF ok
           THEN /\ inbox' = Tail(inbox)
                /\ last_main' = MainEvent("reply", dg, to)
                /\ quiet' = 0
                /\ UNCHANGED <<client, main_result, table_send, table_recv,
                               flows, peer_open, arrivals, lseq, last_flow>>
                /\ UNCHANGED codecvars
           ELSE Exit("err_send", MainEvent("reply", dg, to))

\* Lines 60-75: a new source.  bind succeeded with an ephemeral port; both
\* tables get their entry, the relay task is spawned and the datagram is
\* sent to its socket.
MainNew(port, ok) ==
    /\ main_result = "running"
    /\ inbox # <<>>
    /\ ~Known(Head(inbox).from)
    /\ ~IsReply(Head(inbox).from)
    /\ port \in FreePorts
    /\ LET dg == Head(inbox)
           task == [peer |-> dg.from, port |-> port, status |-> "running",
                    rx |-> <<>>, fwd |-> <<>>]
       IN  IF ok
           THEN /\ inbox' = Tail(inbox)
                /\ table_send' = (dg.from :> port) @@ table_send
                /\ table_recv' = (port :> dg.from) @@ table_recv
                /\ flows' = SendToPort(Append(flows, task), port,
                                       Dgram(Host, dg.data, dg.id, dg.origin))
                /\ last_main' = MainEvent("new", dg, port)
                /\ quiet' = 0
                /\ UNCHANGED <<client, main_result, peer_open, arrivals, lseq,
                               last_flow>>
                /\ UNCHANGED codecvars
           ELSE Exit("err_send", MainEvent("new", dg, port))

\* Line 63: bind fails (no descriptor or no port left) and `?` returns the
\* error from main.
MainBindError ==
    /\ main_result = "running"
    /\ inbox # <<>>
    /\ ~Known(Head(inbox).from)
    /\ ~IsReply(Head(inbox).from)
    /\ Exit("err_bind", MainEvent("new", Head(inbox), 0))

----------------------------------------------------------------------------
(* The relay tasks: one iteration of the loop of client or server *)

Handled(branch, dst, host, panic) ==
    [branch |-> branch, dst |-> dst, host |-> host, panic |-> panic]

\* from.ip().is_loopback() && from.port() == host.port(), lines 85 and 134
FromHost(from) == from.lo /\ from.port = Host.port

\* Mutant: the client forwards the dispatcher's datagram as it is.
ClientRelayVerbatim(dg) ==
    IF FromHost(dg.from) THEN Handled("host", <<dg.data>>, <<>>, FALSE)
    ELSE Handled("other", <<>>, <<>>, FALSE)

\* client, lines 85-124: what one received datagram makes the task send.
ClientRelay(dg) ==
    IF FromHost(dg.from)
    THEN Handled("host", <<encode_as_query(Bytes(dg.data))>>, <<>>, FALSE)
    ELSE IF dg.from = Dst
    THEN LET r == decode_answer(dg.data)
         IN  Handled("dst", <<>>,
                     IF r.outcome = "ok" THEN <<Raw(r.b)>> ELSE <<>>,
                     r.outcome = "panic")
    ELSE Handled("other", <<>>, <<>>, FALSE)

\* server, lines 134-175
ServerRelay(dg) ==
    IF FromHost(dg.from)
    THEN LET r == decode_query(dg.data)
         IN  Handled("host", IF r.outcome = "ok" THEN <<Raw(r.b)>> ELSE <<>>,
                     <<>>, FALSE)
    ELSE IF dg.from = Dst
    THEN Handled("dst", <<>>, <<encode_as_answer(Bytes(dg.data))>>, FALSE)
    ELSE Handled("other", <<>>, <<>>, FALSE)

\* One iteration of relay task i; ok: whether its send_to succeeds.  A
\* failed send_to returns the error from the task, a panic unwinds it;
\* either way the task ends and its socket is closed.
FlowLoop(i, ok) ==
    /\ main_result = "running"
    /\ Running(i)
    /\ flows[i].rx # <<>>
    /\ LET dg == Head(flows[i].rx)
           h == IF client THEN ClientRelay(dg) ELSE ServerRelay(dg)
           sends == h.dst # <<>> \/ h.host # <<>>
           status == IF h.panic THEN "panicked"
                     ELSE IF sends /\ ~ok THEN "failed"
                     ELSE "running"
           to_dst == IF ok THEN h.dst ELSE <<>>
           to_host == IF ok THEN h.host ELSE <<>>
           queued == to_host # <<>> /\ Len(inbox) < InboxCap
       IN  /\ sends \/ ok
           /\ flows' = [flows EXCEPT
                  ![i].rx = IF status = "running" THEN Tail(@) ELSE <<>>,
                  ![i].status = status,
                  ![i].fwd = IF to_dst # <<>> THEN Append(@, dg.id) ELSE @]
           /\ inbox' = IF to_host # <<>>
                       THEN Receive(inbox, InboxCap,
                                    Dgram(Addr(TRUE, flows[i].port), to_host[1],
                                          lseq + 1, i))
                       ELSE inbox
           /\ lseq' = IF queued THEN lseq + 1 ELSE lseq
           /\ last_flow' = [branch |-> h.branch, flow |-> i, in |-> dg,
                            dst |-> to_dst, host |-> to_host, status |-> status]
    /\ quiet' = 0
    /\ UNCHANGED <<client, main_result, table_send, table_recv, peer_open,
                   arrivals, last_main>>
    /\ UNCHANGED codecvars

\* Lines 83 and 132: recv_from on the upstream socket fails and the task
\* returns the error.
FlowRecvError(i) ==
    /\ main_result = "running"
    /\ Running(i)
    /\ flows[i].rx = <<>>
    /\ flows' = [flows EXCEPT ![i].status = "failed"]
    /\ UNCHANGED <<client, main_result, inbox, table_send, table_recv,
                   peer_open, arrivals, lseq, quiet, last_main, last_flow>>
    /\ UNCHANGED codecvars

----------------------------------------------------------------------------
Next ==
    \/ \E src \in PeerAddrs : \E data \in ListenInputs : ArriveListen(src, data)
    \/ \E i \in DOMAIN flows : \E data \in UpstreamInputs : ArriveUpstream(i, Dst, data)
    \/ \E p \in PeerAddrs : PeerClose(p)
    \/ Tick
    \/ MainRecvError
    \/ \E ok \in BOOLEAN : MainKnown(ok)
    \/ \E ok \in BOOLEAN : MainReply(ok)
    \/ \E port \in Ports : \E ok \in BOOLEAN : MainNew(port, ok)
    \/ MainBindError
    \/ \E i \in DOMAIN flows : \E ok \in BOOLEAN : FlowLoop(i, ok)
    \/ \E i \in DOMAIN flows : FlowRecvError(i)

Spec == Init /\ [][Next]_vars

\* The same program in another environment: one remote peer, the tunnel
\* destination and the other senders; no local application acts and no
\* clock runs.
OpenNext ==
    \/ \E data \in ListenInputs : ArriveListen(RemotePeer, data)
    \/ \E src \in ListenIntruders : ArriveListen(src, Raw(Odd))
    \/ \E i \in DOMAIN flows : \E data \in UpstreamInputs : ArriveUpstream(i, Dst, data)
    \/ \E i \in DOMAIN flows : \E src \in UpstreamIntruders : ArriveUpstream(i, src, Raw(Odd))
    \/ MainRecvError
    \/ \E ok \in BOOLEAN : MainKnown(ok)
    \/ \E ok \in BOOLEAN : MainReply(ok)
    \/ \E port \in Ports : \E ok \in BOOLEAN : MainNew(port, ok)
    \/ MainBindError
    \/ \E i \in DOMAIN flows : \E ok \in BOOLEAN : FlowLoop(i, ok)
    \/ \E i \in DOMAIN flows : FlowRecvError(i)

OpenSpec == Init /\ [][OpenNext]_vars

----------------------------------------------------------------------------
(* The codec on its own: encode a payload, then decode the message *)

EncodeQuery ==
    /\ stage = "picked"
    /\ qmsg' = encode_as_query(payload)
    /\ stage' = "query"
    /\ UNCHANGED <<payload, amsg, decoded>>
    /\ UNCHANGED netvars

DecodeQuery ==
    /\ stage = "query"
    /\ decoded' = decode_query(qmsg)
    /\ stage' = "query_decoded"
    /\ UNCHANGED <<payload, qmsg, amsg>>
    /\ UNCHANGED netvars

EncodeAnswer ==
    /\ stage = "picked"
    /\ amsg' = encode_as_answer(payload)
    /\ stage' = "answer"
    /\ UNCHANGED <<payload, qmsg, decoded>>
    /\ UNCHANGED netvars

DecodeAnswer ==
    /\ stage = "answer"
    /\ decoded' = decode_answer(amsg)
    /\ stage' = "answer_decoded"
    /\ UNCHANGED <<payload, qmsg, amsg>>
    /\ UNCHANGED netvars

CodecNext == EncodeQuery \/ DecodeQuery \/ EncodeAnswer \/ DecodeAnswer

CodecSpec == CodecInit /\ [][CodecNext]_vars

----------------------------------------------------------------------------
(* Properties *)

Alive == main_result = "running"

TasksOf(p) == {i \in DOMAIN flows : flows[i].peer = p}

\* C1: the table holds one entry per source address, and for every address
\* in the table exactly one relay task was spawned (one upstream socket
\* bound); no task exists for an address outside the table, so a datagram
\* of a known source spawns nothing.
C1_OneTaskPerPeer ==
    /\ \A p \in DOMAIN table_send : Cardinality(TasksOf(p)) = 1
    /\ \A i \in DOMAIN flows : flows[i].peer \in DOMAIN table_send
    /\ Len(flows) = Cardinality(DOMAIN table_send)

\* Two datagrams of one new source have been dispatched: the first spawned
\* the task, the second took the lookup branch.
C1_Witness ==
    /\ Alive
    /\ lseq = 2
    /\ inbox = <<>>
    /\ last_main.branch = "known"
    /\ Len(flows) = 1

\* C2: a datagram that a relay task sent to the listening socket is written
\* out to the peer the task was spawned for: the dispatcher takes the reply
\* branch for it and the table gives that peer.
C2_RepliesReachOwnPeer ==
    (Alive /\ last_main.branch # "none" /\ last_main.origin # 0)
        => /\ last_main.branch = "reply"
           /\ last_main.to = flows[last_main.origin].peer

\* C3: once nothing has been sent or received for longer than the idle
\* timeout, every flow has been removed from the table.
C3_IdleFlowsAreRemoved ==
    (Alive /\ quiet > IdleTimeout) => DOMAIN table_send = {}

\* C4: the table has an entry for an address exactly if a relay task of
\* that address is running.
C4_EntryIffTaskRunning ==
    Alive =>
        \A p \in PeerAddrs \cup {Dst} :
            (p \in DOMAIN table_send) <=> (\E i \in TasksOf(p) : Running(i))

Undecodable == {Raw(Odd), BadQuery, BadAnswer, NonTxtAnswer}

\* The last iteration of a relay task took a datagram it had to decode.
DecodedLast ==
    \/ ~client /\ last_flow.branch = "host"
    \/ client /\ last_flow.branch = "dst"

\* C7: a datagram that does not decode is dropped: the relay task sends
\* nothing for it and keeps running.
C7_UndecodableIsDropped ==
    (Alive /\ DecodedLast /\ last_flow.in.data \in Undecodable)
        => /\ last_flow.dst = <<>>
           /\ last_flow.host = <<>>
           /\ last_flow.status = "running"

\* C8: a failed bind of an upstream socket does not end the dispatcher.
C8_BindFailureIsLocal == main_result # "err_bind"

\* The datagram at the head of the listening socket is for a known source
\* whose upstream socket has a full buffer.
TargetFull(port) ==
    \E i \in DOMAIN flows :
        flows[i].port = port /\ Running(i) /\ Len(flows[i].rx) >= QueueCap
SaturatedCase ==
    /\ Alive
    /\ inbox # <<>>
    /\ Known(Head(inbox).from)
    /\ TargetFull(table_send[Head(inbox).from])

\* The dispatcher handled the datagram at the head of the listening socket
\* and goes on.
Dispatched == Alive /\ inbox # <<>> /\ inbox' = Tail(inbox) /\ main_result' = "running"

\* C9: a datagram for a flow whose buffer is full is dropped, the
\* dispatcher can always handle it at once, and a datagram for a flow whose
\* buffer has room is queued there.
C9_Backpressure ==
    /\ [](SaturatedCase => ENABLED MainKnown(TRUE))
    /\ [][(SaturatedCase /\ Dispatched) => flows' = flows]_vars
    /\ [][(Dispatched /\ Known(Head(inbox).from)
              /\ ~TargetFull(table_send[Head(inbox).from]))
            => \A i \in DOMAIN flows :
                  (flows[i].port = table_send[Head(inbox).from] /\ Running(i))
                      => /\ Len(flows'[i].rx) = Len(flows[i].rx) + 1
                         /\ flows'[i].rx[Len(flows'[i].rx)].id = Head(inbox).id]_vars

\* The dispatcher has dropped a datagram of a known source (it is not in
\* the full buffer of its flow) while another flow is running.
C9_Witness ==
    /\ Alive
    /\ last_main.branch = "known"
    /\ \E i \in DOMAIN flows :
          /\ flows[i].port = last_main.to
          /\ Running(i)
          /\ Len(flows[i].rx) = QueueCap
          /\ \A k \in DOMAIN flows[i].rx : flows[i].rx[k].id # last_main.id
          /\ \E j \in DOMAIN flows : j # i /\ Running(j)

\* Text of a query message: its names without the final dot, joined.
QueryText(m) ==
    Concat([i \in 1..Len(m.queries) |-> TrimEndDots(NameToString(m.queries[i]))])

Plain == {<<>>, Ping, Odd}

\* What a server task has to send for a datagram: the payload whose
\* base64url text the queries carry, if there is one.
ServerExpected(data) ==
    IF data.k # "msg" THEN <<>>
    ELSE IF \E b \in Plain : encode_config(b, URL_SAFE_NO_PAD) = QueryText(data)
    THEN <<Raw(CHOOSE b \in Plain : encode_config(b, URL_SAFE_NO_PAD) = QueryText(data))>>
    ELSE <<>>

\* A query message that carries the bytes: no answers, one single-label
\* name per query, labels of 1..NAME_L characters, and the joined labels
\* are the unpadded base64url text of the bytes.
IsQueryOf(m, bytes) ==
    /\ m.k = "msg"
    /\ m.answers = <<>>
    /\ \A i \in DOMAIN m.queries :
          /\ Len(m.queries[i]) = 1
          /\ Len(m.queries[i][1]) \in 1..NAME_L
    /\ \A c \in {QueryText(m)[k] : k \in DOMAIN QueryText(m)} : c # PAD
    /\ decode_config(QueryText(m), URL_SAFE_NO_PAD) = Ok(bytes)

\* C10: for a datagram from the dispatcher whose send succeeded, a client
\* task sent the destination exactly one datagram, the query message of the
\* bytes; a server task sent exactly the decoded payload, and nothing when
\* the datagram does not decode.
C10_RelayTransforms ==
    (Alive /\ last_flow.branch = "host" /\ last_flow.status = "running")
        => /\ last_flow.host = <<>>
           /\ client => /\ Len(last_flow.dst) = 1
                        /\ IsQueryOf(last_flow.dst[1], last_flow.in.data.b)
           /\ ~client => last_flow.dst = ServerExpected(last_flow.in.data)

\* A client task has sent the query message of a datagram.
C10_Witness ==
    /\ Alive
    /\ client
    /\ last_flow.branch = "host"
    /\ last_flow.status = "running"
    /\ last_flow.dst # <<>>

\* C11: a datagram that reaches the listening socket from the tunnel
\* destination is ignored: the dispatcher takes none of its three branches
\* for it, so no table holds the tunnel destination, no relay task serves it
\* and nothing is sent on its account.
C11_DstOnListenIsIgnored ==
    /\ Dst \notin DOMAIN table_send
    /\ \A q \in DOMAIN table_recv : table_recv[q] # Dst
    /\ TasksOf(Dst) = {}
    /\ last_main.branch \in {"known", "reply", "new"} => last_main.from # Dst

\* C16: a failed recv_from or send_to on the listening socket ends the
\* process: main has returned that error, no relay task is left, and no
\* step of the program follows.
C16_ListenErrorEndsProcess ==
    /\ last_main.io \in {"err_recv", "err_send"} =>
            /\ main_result = last_main.io
            /\ flows = <<>>
            /\ inbox = <<>>
    /\ ~Alive => ~ENABLED Next

\* A send from the dispatch loop failed while a relay task was running, and
\* the process is gone.
C16_Witness ==
    /\ main_result = "err_send"
    /\ last_main.branch = "known"
    /\ last_main.io = "err_send"
    /\ flows = <<>>

\* Relay task i takes the head of its queue in this step.
Consumes(i) ==
    /\ i \in DOMAIN flows'
    /\ Len(flows'[i].rx) < Len(flows[i].rx)

\* The step changed nothing but the queue of task i, which lost its head.
OnlyConsumed(i) ==
    /\ flows' = [flows EXCEPT ![i].rx = Tail(@)]
    /\ UNCHANGED <<main_result, inbox, table_send, table_recv, peer_open>>

\* C17 as stated: a relay task that takes a datagram whose source is neither
\* the tunnel destination nor the listening socket sends nothing, keeps
\* running and changes no table and no task state.
C17_OtherSourceIsIgnored ==
    [][\A i \in DOMAIN flows :
          (/\ Running(i)
           /\ flows[i].rx # <<>>
           /\ Head(flows[i].rx).from \notin {Dst, Host}
           /\ Consumes(i)) => OnlyConsumed(i)]_vars

\* What the source tests of lines 85, 101, 134 and 158 do ensure: the same
\* holds of a datagram whose source is neither the tunnel destination nor
\* any loopback address with the port of the listening socket.
NonLoopbackIsIgnored ==
    [][\A i \in DOMAIN flows :
          (/\ Running(i)
           /\ flows[i].rx # <<>>
           /\ Head(flows[i].rx).from # Dst
           /\ ~FromHost(Head(flows[i].rx).from)
           /\ Consumes(i)) => OnlyConsumed(i)]_vars

\* A relay task has taken a datagram of a foreign host and runs on.
NonLoopbackWitness ==
    /\ last_flow.branch = "other"
    /\ last_flow.in.from = Stranger
    /\ last_flow.dst = <<>>
    /\ last_flow.host = <<>>
    /\ Running(last_flow.flow)

\* C18: the two tables are inverse to each other: table_send maps a peer
\* to a port exactly when table_recv maps that port to the peer.
C18_TablesAreInverses ==
    /\ \A p \in DOMAIN table_send :
           /\ table_send[p] \in DOMAIN table_recv
           /\ table_recv[table_send[p]] = p
    /\ \A q \in DOMAIN table_recv :
           /\ table_recv[q] \in DOMAIN table_send
           /\ table_send[table_recv[q]] = q

\* All labels of the query names of a message, and all strings of its
\* records, in order.
Labels(m) == Concat(m.queries)
TxtStrings(m) == Concat([i \in 1..Len(m.answers) |-> m.answers[i].txt])

ChunkedBy(cs, size) ==
    \A i \in 1..Len(cs) :
        /\ Len(cs[i]) >= 1
        /\ Len(cs[i]) <= size
        /\ i < Len(cs) => Len(cs[i]) = size

Lengths(cs) == [i \in 1..Len(cs) |-> Len(cs[i])]

\* C12: every label of a query message has at most NAME_L symbols and every
\* string of an answer message at most TXT_L; every chunk but the last has
\* exactly that many, and none is empty.
C12_ChunkBounds ==
    /\ stage = "query" => ChunkedBy(Labels(qmsg), NAME_L)
    /\ stage = "answer" => ChunkedBy(TxtStrings(amsg), TXT_L)

\* A query message of full labels and a shorter last one.
C12_Witness ==
    /\ stage = "query"
    /\ Len(Labels(qmsg)) >= 3
    /\ Len(Labels(qmsg)[1]) = NAME_L
    /\ Len(Labels(qmsg)[Len(Labels(qmsg))]) < NAME_L

\* C13 as stated: the answer message of a payload of 600 bytes has exactly
\* three TXT records, of 255, 255 and 90 symbols, and decodes to the payload.
C13_ThreeRecords ==
    Len(payload) = 600 =>
        /\ stage = "answer" => Lengths(TxtStrings(amsg)) = <<255, 255, 90>>
        /\ stage = "answer_decoded" => decoded = Ok(payload)

\* C13, amended: the 600 bytes are 800 symbols of base64, so the answer
\* message has exactly four TXT records, of 255, 255, 255 and 35 symbols,
\* one string each; it decodes to the payload.
C13_FourRecords ==
    Len(payload) = 600 =>
        /\ stage \in {"answer", "answer_decoded"} =>
               /\ Len(amsg.answers) = 4
               /\ Lengths(TxtStrings(amsg)) = <<255, 255, 255, 35>>
        /\ stage = "answer_decoded" => decoded = Ok(payload)

\* The answer message of a payload of 600 bytes has been decoded.
C13_Witness ==
    /\ Len(payload) = 600
    /\ stage = "answer_decoded"
    /\ Len(amsg.answers) = 4

\* C14: the text of an answer message is the standard base64 of the
\* payload with padding, so its length is a multiple of 4, and the answer
\* decoder takes a message of that text back to the payload.
C14_AnswerIsStandardPadded ==
    stage = "answer" =>
        LET standard == encode_config(payload, STANDARD)
            sent == Message(<<>>, [i \in 1..Len(Chunks(standard, TXT_L)) |->
                                     TxtRecord(<<Chunks(standard, TXT_L)[i]>>)])
        IN  /\ Len(Concat(TxtStrings(amsg))) % 4 = 0
            /\ Concat(TxtStrings(amsg)) = standard
            /\ decode_answer(sent) = Ok(payload)

\* ceil(a / b)
CeilDiv(a, b) == (a + b - 1) \div b

\* C15: the query message of a payload has no answers and one query for
\* every chunk of at most NAME_L symbols of the unpadded URL-safe base64
\* text, each name being exactly one label: ceil(L / NAME_L) queries for a
\* text of L symbols, none for the empty payload, and for "ping" the one
\* label "cGluZw".
C15_OneQueryPerChunk ==
    stage = "query" =>
        LET text == encode_config(payload, URL_SAFE_NO_PAD)
        IN  /\ qmsg.k = "msg"
            /\ qmsg.answers = <<>>
            /\ \A i \in 1..Len(qmsg.queries) :
                   /\ Len(qmsg.queries[i]) = 1
                   /\ Len(qmsg.queries[i][1]) <= NAME_L
            /\ Len(qmsg.queries) = CeilDiv(Len(text), NAME_L)
            /\ Concat(Labels(qmsg)) = text
            /\ \A k \in 1..Len(text) : text[k] # PAD /\ Morsel(URL_SAFE_NO_PAD, text[k]) >= 0
            /\ payload = <<>> => qmsg.queries = <<>>
            /\ payload = Ping =>
                   qmsg.queries = << <<(<<99, 71, 108, 117, 90, 119>>)>> >>

\* "ping" has been encoded, as one query.
C15_Witness ==
    /\ stage = "query"
    /\ payload = Ping
    /\ Len(qmsg.queries) = 1

\* C19: the query message and the answer message of a payload of at most
\* BUF_SIZE bytes are at most BUF_SIZE bytes on the wire.
C19_MessageFitsBuffer ==
    Len(payload) <= BUF_SIZE =>
        /\ stage = "query" => WireLen(qmsg) <= BUF_SIZE
        /\ stage = "answer" => WireLen(amsg) <= BUF_SIZE

=============================================================================
